---------------------------- MODULE Spec2Model ----------------------------
(* A model of tex_checker.py: the normalizer (stripcomments, stripeqns,    *)
(* stripinline), four of the checks (checkmissingbackslash, checkrep,      *)
(* checkbib, checkmultipleacronyms) and the main loop that dispatches the  *)
(* checks.  A text is a sequence of one-character strings; every regular   *)
(* expression of the source is written out as an operator over such        *)
(* sequences.  The pattern of stripeqns is read as the re module of        *)
(* Python 2 / Python <= 3.6 reads it ("\e" matches the letter e).          *)
EXTENDS Integers, Sequences, FiniteSets, TLC

VARIABLES argv, files, argi, pc, raw, fstr, fstr_noeqns, fstr_nomath,
          aps, nat, foils, calls, stdout, stderr, status, ret

vars == <<argv, files, argi, pc, raw, fstr, fstr_noeqns, fstr_nomath,
          aps, nat, foils, calls, stdout, stderr, status, ret>>

-----------------------------------------------------------------------------
(* Sequences of characters.                                                *)

Min(S) == CHOOSE m \in S : \A n \in S : m <= n

Max(S) == CHOOSE m \in S : \A n \in S : m >= n

RECURSIVE Flatten(_)
Flatten(ss) == IF ss = <<>> THEN <<>> ELSE Head(ss) \o Flatten(Tail(ss))

\* All sequences over S of length at most n.
SeqsUpTo(S, n) == UNION {[1..k -> S] : k \in 0..n}

\* s[i:i+len(lit)] == lit
StartsAt(s, i, lit) ==
    /\ i >= 1
    /\ i + Len(lit) - 1 <= Len(s)
    /\ \A k \in 1..Len(lit) : s[i + k - 1] = lit[k]

\* lit occurs somewhere in s (the "in" operator, re.search of a literal)
Contains(s, lit) == \E i \in 1..(Len(s) + 1) : StartsAt(s, i, lit)

\* str.endswith
EndsWith(s, suf) ==
    Len(s) >= Len(suf) /\ StartsAt(s, Len(s) - Len(suf) + 1, suf)

NL == "\n"

\* str.split(sep) for a non-empty separator: the pieces between occurrences
\* of sep, scanning left to right.
RECURSIVE SplitFrom(_, _, _)
SplitFrom(s, start, sep) ==
    LET P == {i \in start..Len(s) : StartsAt(s, i, sep)}
    IN  IF P = {} THEN <<SubSeq(s, start, Len(s))>>
        ELSE <<SubSeq(s, start, Min(P) - 1)>>
             \o SplitFrom(s, Min(P) + Len(sep), sep)

Split(s, sep) == SplitFrom(s, 1, sep)

\* The lines a MULTILINE pattern sees: ^ matches at the start and after every
\* newline, $ before every newline and at the end.
Lines(s) == Split(s, <<NL>>)

RECURSIVE JoinLines(_)
JoinLines(ls) ==
    IF Len(ls) = 0 THEN <<>>
    ELSE IF Len(ls) = 1 THEN ls[1]
    ELSE ls[1] \o <<NL>> \o JoinLines(Tail(ls))

-----------------------------------------------------------------------------
(* Literals of the patterns.                                               *)

BS == "\\"

Blank == {" ", "\t"}

BeginOf(env) == <<BS, "b", "e", "g", "i", "n", "{">> \o env \o <<"}">>

EndOf(env) == <<BS, "e", "n", "d", "{">> \o env \o <<"}">>

Verbatim == <<"v", "e", "r", "b", "a", "t", "i", "m">>

Lstlisting == <<"l", "s", "t", "l", "i", "s", "t", "i", "n", "g">>

\* (math|equation\*?|displaymath|eqnarray\*?|align)
EqnEnvs ==
    { <<"m", "a", "t", "h">>,
      <<"e", "q", "u", "a", "t", "i", "o", "n">>,
      <<"e", "q", "u", "a", "t", "i", "o", "n", "*">>,
      <<"d", "i", "s", "p", "l", "a", "y", "m", "a", "t", "h">>,
      <<"e", "q", "n", "a", "r", "r", "a", "y">>,
      <<"e", "q", "n", "a", "r", "r", "a", "y", "*">>,
      <<"a", "l", "i", "g", "n">> }

\* \\begin\{(...)\}|\\[\(\[]
EqnOpens == {BeginOf(e) : e \in EqnEnvs} \cup {<<BS, "(">>, <<BS, "[">>}

\* \\\end\{(...)\}|\\[\]\)]
EqnCloses == {EndOf(e) : e \in EqnEnvs} \cup {<<BS, "]">>, <<BS, ")">>}

Xxx == <<" ", "x", "x", "x", " ">>

DollarXxx == <<"$", "x", "x", "x", "$">>

-----------------------------------------------------------------------------
(* The normalizer.                                                         *)

\* re.sub(r"^[ \t]*%.*$","",line): a line whose first character after blanks
\* and tabs is % becomes empty.
DropCommentLine(l) ==
    LET P == {i \in 1..Len(l) : l[i] \notin Blank}
    IN  IF P # {} /\ l[Min(P)] = "%" THEN <<>> ELSE l

\* The places of a line where [^\\\n]% matches: a % with a character other
\* than a backslash before it on the line.
CommentMarks(l) == {k \in 2..Len(l) : l[k] = "%" /\ l[k - 1] # BS}

\* re.sub(r"^(.*[^\\\n])%.*$",r"\1",line): .* is greedy, so the line is cut
\* at the last % that has a non-backslash character before it.
CutMark(K) == Max(K)

DropTrailingComment(l) ==
    LET K == CommentMarks(l)
    IN  IF K = {} THEN l ELSE SubSeq(l, 1, CutMark(K) - 1)

\* re.sub(open.*?close, open+mid+close, s, flags=DOTALL) from position i on:
\* the leftmost opener that has a closer after it, up to the first such
\* closer, is replaced; scanning resumes after the closer.
RECURSIVE SubDelim(_, _, _, _, _)
SubDelim(s, i, opens, closes, mid) ==
    LET P == {p \in i..Len(s) : \E o \in opens : StartsAt(s, p, o)}
    IN  IF P = {} THEN SubSeq(s, i, Len(s))
        ELSE LET p == Min(P)
                 o == CHOOSE o \in opens : StartsAt(s, p, o)
                 Q == {q \in (p + Len(o))..Len(s) :
                           \E c \in closes : StartsAt(s, q, c)}
             IN  IF Q = {} THEN SubSeq(s, i, Len(s))
                 ELSE LET q == Min(Q)
                          c == CHOOSE c \in closes : StartsAt(s, q, c)
                      IN  SubSeq(s, i, p - 1) \o o \o mid \o c
                          \o SubDelim(s, q + Len(c), opens, closes, mid)

MapLines(Op(_), ls) == [k \in 1..Len(ls) |-> Op(ls[k])]

\* A first pattern that takes the newline with the comment line
StripLineCommentsDropping(s) ==
    LET Kept(l) == DropCommentLine(l) = l
        a == JoinLines(SelectSeq(Lines(s), Kept))
    IN  JoinLines(MapLines(DropTrailingComment, Lines(a)))

\* The two MULTILINE substitutions of stripcomments, line by line
StripLineComments(s) ==
    LET a == JoinLines(MapLines(DropCommentLine, Lines(s)))
    IN  JoinLines(MapLines(DropTrailingComment, Lines(a)))

stripcomments(s) ==
    LET b == StripLineComments(s)
        c == SubDelim(b, 1, {BeginOf(Verbatim)}, {EndOf(Verbatim)}, <<" ">>)
    IN  SubDelim(c, 1, {BeginOf(Lstlisting)}, {EndOf(Lstlisting)}, <<" ">>)

stripeqns(s) == SubDelim(s, 1, EqnOpens, EqnCloses, Xxx)

\* re.sub(r"([^\\])D.*?[^\\]D", r"\1$xxx$", s, flags=DOTALL) for D = $$ or $.
\* The places where [^\\]D matches: a character other than a backslash with
\* the delimiter right after it.
Delimited(s, from, d) ==
    {p \in from..Len(s) : s[p] # BS /\ StartsAt(s, p + 1, d)}

\* The closing [^\\]D that .*? stops at: the first one.
ClosingAt(E) == Min(E)

RECURSIVE SubInline(_, _, _)
SubInline(s, i, d) ==
    LET P == Delimited(s, i, d)
    IN  IF P = {} THEN SubSeq(s, i, Len(s))
        ELSE LET p == Min(P)
                 E == Delimited(s, p + 1 + Len(d), d)
             IN  IF E = {} THEN SubSeq(s, i, Len(s))
                 ELSE SubSeq(s, i, p) \o DollarXxx
                      \o SubInline(s, ClosingAt(E) + 1 + Len(d), d)

stripinline(s) == SubInline(SubInline(s, 1, <<"$", "$">>), 1, <<"$">>)

-----------------------------------------------------------------------------
(* Character classes.                                                      *)

UpperSeq == <<"A", "B", "C", "D", "E", "F", "G", "H", "I", "J", "K", "L", "M",
              "N", "O", "P", "Q", "R", "S", "T", "U", "V", "W", "X", "Y", "Z">>

LowerSeq == <<"a", "b", "c", "d", "e", "f", "g", "h", "i", "j", "k", "l", "m",
              "n", "o", "p", "q", "r", "s", "t", "u", "v", "w", "x", "y", "z">>

Upper == {UpperSeq[k] : k \in 1..26}

Lower == {LowerSeq[k] : k \in 1..26}

Digit == {"0", "1", "2", "3", "4", "5", "6", "7", "8", "9"}

\* \s for the characters a text is made of
WhiteSpace == {" ", "\t", "\n", "\r", "\f"}

\* re.IGNORECASE: both sides are compared in lower case
ToLower(c) ==
    IF c \in Upper THEN LowerSeq[CHOOSE k \in 1..26 : UpperSeq[k] = c] ELSE c

\* Roman numeral letters
RomanChars == {"I", "V", "X", "L", "C", "D", "M"}

\* romannumeralre=re.compile(r"^[IVXLCDM]*$")
romannumeralre(a) == \A k \in 1..Len(a) : a[k] \in RomanChars

-----------------------------------------------------------------------------
(* checkmissingbackslash                                                   *)

\* i\.e\. under IGNORECASE
MatchIe(l, j) ==
    /\ j + 3 <= Len(l)
    /\ ToLower(l[j]) = "i" /\ l[j + 1] = "." /\ ToLower(l[j + 2]) = "e"
    /\ l[j + 3] = "."

\* e\.g.\|n\.b\. under IGNORECASE: "e.g", any character, a literal "|",
\* "n.b."
MatchEgNb(l, j) ==
    /\ j + 8 <= Len(l)
    /\ ToLower(l[j]) = "e" /\ l[j + 1] = "." /\ ToLower(l[j + 2]) = "g"
    /\ l[j + 4] = "|"
    /\ ToLower(l[j + 5]) = "n" /\ l[j + 6] = "." /\ ToLower(l[j + 7]) = "b"
    /\ l[j + 8] = "."

\* (?:i\.e\.|e\.g.\|n\.b\.) at place j of the line: the places right after
\* a match of either alternative
AbbrevEnds(l, j) ==
    (IF MatchIe(l, j) THEN {j + 4} ELSE {})
    \cup (IF MatchEgNb(l, j) THEN {j + 9} ELSE {})

\* ^.*(?:i\.e\.|e\.g.\|n\.b\.)(?:[ \t~].*)?$ on one line
AbbrevLine(l) ==
    \E j \in 1..Len(l) : \E e \in AbbrevEnds(l, j) :
        e > Len(l) \/ l[e] \in {" ", "\t", "~"}

\* a\.u\. at place j of a line
MatchAu(l, j) ==
    /\ j + 3 <= Len(l)
    /\ l[j] = "a" /\ l[j + 1] = "." /\ l[j + 2] = "u" /\ l[j + 3] = "."

\* The number of characters of class C from place i of s on
Run(s, i, C) ==
    Max({n \in 0..(Len(s) + 1 - i) : \A k \in 0..(n - 1) : s[i + k] \in C})

\* The place of the first newline from place i on, or the place after the end
LineEnd(s, i) ==
    LET P == {e \in i..Len(s) : s[e] = NL} IN IF P = {} THEN Len(s) + 1 ELSE Min(P)

\* \s+[a-z] from place i of the text on; \s+ may run over newlines.  The
\* place of the [a-z], or 0.
AuTail(s, i) ==
    LET n == Run(s, i, WhiteSpace)
    IN  IF n >= 1 /\ i + n <= Len(s) /\ s[i + n] \in Lower THEN i + n ELSE 0

\* re.findall(r"^.*a\.u\.\s+[a-z].*$",fstr,re.MULTILINE) from the line that
\* starts at place b on: the greedy .* takes the last a.u. of the line that
\* the rest can follow, and the match runs to the end of the line of [a-z].
RECURSIVE AuScan(_, _)
AuScan(s, b) ==
    IF b > Len(s) THEN <<>>
    ELSE LET e == LineEnd(s, b)
             J == {j \in b..(e - 4) : MatchAu(s, j) /\ AuTail(s, j + 4) > 0}
         IN  IF J = {} THEN AuScan(s, e + 1)
             ELSE LET f == LineEnd(s, AuTail(s, Max(J) + 4))
                  IN  <<SubSeq(s, b, f - 1)>> \o AuScan(s, f + 1)

AbbrevPattern(l) == AbbrevLine(l)

\* The two lists checkmissingbackslash hands to reportissues: re.findall of a
\* ^...$ pattern that cannot cross a newline gives the matching lines in order.

checkmissingbackslash(s) ==
    <<SelectSeq(Lines(s), AbbrevPattern), AuScan(s, 1)>>

-----------------------------------------------------------------------------
(* checkrep                                                                *)

\* str.splitlines for texts whose only line break is "\n"
splitlines(s) ==
    IF s = <<>> THEN <<>>
    ELSE IF s[Len(s)] = NL THEN Lines(SubSeq(s, 1, Len(s) - 1))
    ELSE Lines(s)

\* str.split(): the maximal runs of characters that are not white space
RECURSIVE WordsFrom(_, _)
WordsFrom(l, i) ==
    LET P == {p \in i..Len(l) : l[p] \notin WhiteSpace}
    IN  IF P = {} THEN <<>>
        ELSE LET p == Min(P)
                 Q == {q \in p..Len(l) : l[q] \in WhiteSpace}
                 e == IF Q = {} THEN Len(l) + 1 ELSE Min(Q)
             IN  <<SubSeq(l, p, e - 1)>> \o WordsFrom(l, e)

split(l) == WordsFrom(l, 1)

Itemize == <<"i", "t", "e", "m", "i", "z", "e">>

Enumerate == <<"e", "n", "u", "m", "e", "r", "a", "t", "e">>

Description == <<"d", "e", "s", "c", "r", "i", "p", "t", "i", "o", "n">>

Hline == <<BS, "h", "l", "i", "n", "e">>

\* excludes=(r"\hline",r"&",r"\\",r"\end{itemize}",r"\end{enumerate}",
\*           r"\end{description}")
excludes ==
    {Hline, <<"&">>, <<BS, BS>>, EndOf(Itemize), EndOf(Enumerate),
     EndOf(Description)}

\* ^\d+,?$
BareNumber(w) ==
    LET n == IF w # <<>> /\ w[Len(w)] = "," THEN Len(w) - 1 ELSE Len(w)
    IN  n >= 1 /\ \A k \in 1..n : w[k] \in Digit

\* ^[A-Z]\.?\\?$
CapitalLabel(w) ==
    /\ Len(w) >= 1 /\ w[1] \in Upper
    /\ \/ Len(w) = 1
       \/ Len(w) = 2 /\ w[2] \in {".", BS}
       \/ Len(w) = 3 /\ w[2] = "." /\ w[3] = BS

\* excludesre=re.compile(r"^\d+,?$|^[A-Z]\.?\\?$")
excludesre(w) == BareNumber(w) \/ CapitalLabel(w)

\* if w==lw and not w in excludes and not excludesre.search(w)
Repeated(w, lw) == w = lw /\ w \notin excludes /\ ~excludesre(w)

Dots == <<".", ".", ".", " ">>

\* The inner loop of checkrep over the words ws of line l from word iw on;
\* st = [lw, x].
RECURSIVE RepWords(_, _, _, _)
RepWords(l, ws, iw, st) ==
    IF iw > Len(ws) THEN st
    ELSE LET w == ws[iw]
             x == IF Repeated(w, st.lw)
                  THEN Append(st.x, IF iw = 1 THEN Dots \o w \o <<NL>> \o l
                                    ELSE l)
                  ELSE st.x
         IN  RepWords(l, ws, iw + 1, [lw |-> w, x |-> x])

\* lw="" moved into the loop over the lines
CarryOverReset(st) == [lw |-> <<>>, x |-> st.x]

\* The word the search starts a line with: lw is kept from line to line.
CarryOver(st) == st

\* The outer loop of checkrep over the lines.
RECURSIVE RepLines(_, _, _)
RepLines(ls, k, st) ==
    IF k > Len(ls) THEN st
    ELSE RepLines(ls, k + 1, RepWords(ls[k], split(ls[k]), 1, CarryOver(st)))

\* The list checkrep hands to reportissues.
checkrep(s) == RepLines(splitlines(s), 1, [lw |-> <<>>, x |-> <<>>]).x

-----------------------------------------------------------------------------
(* reportissues and the printed reports.  A report is [who, n, body]: the  *)
(* function that printed it, a number it printed and the texts it printed. *)

Report(who, n, body) == [who |-> who, n |-> n, body |-> body]

\* reportissues(x,message): nothing is printed for an empty list
reportissues(who, x) == IF x = <<>> THEN <<>> ELSE <<Report(who, 0, x)>>

-----------------------------------------------------------------------------
(* checkbib                                                                *)

Bibitem == <<BS, "b", "i", "b", "i", "t", "e", "m">>

\* "{thebibliography}{"
BibDecl == <<"{", "t", "h", "e", "b", "i", "b", "l", "i", "o", "g", "r", "a",
             "p", "h", "y", "}", "{">>

\* nb=len(re.findall(r"\\bibitem",fstr))
CountBibitems(s) == Cardinality({i \in 1..Len(s) : StartsAt(s, i, Bibitem)})

\* The number of decimal digits of nb >= 1.
RECURSIVE DecimalDigits(_)
DecimalDigits(nb) == IF nb < 10 THEN 1 ELSE 1 + DecimalDigits(nb \div 10)

\* The count itself taken for its width
DigitWidthAsCount(nb) == nb

\* nd=int(math.log(float(nb))/math.log(10.0))+1, for nb >= 1.  In double
\* precision the quotient is the exact logarithm rounded, which truncates to
\* the number of digits less one except at nb = 1000, where it is
\* 2.9999999999999996.
DigitWidth(nb) == IF nb = 1000 THEN 3 ELSE DecimalDigits(nb)

\* The number of digits from place i of s on (\d* is greedy)
DigitRun(s, i) == Run(s, i, Digit)

\* re.search(r"\{thebibliography}{\d{nd}\}",fstr)
HasDeclOfWidth(s, nd) ==
    \E i \in 1..Len(s) :
        /\ StartsAt(s, i, BibDecl)
        /\ \A k \in 0..(nd - 1) :
               i + 18 + k <= Len(s) /\ s[i + 18 + k] \in Digit
        /\ i + 18 + nd <= Len(s) /\ s[i + 18 + nd] = "}"

\* The places where r"\{thebibliography\}\{\d*\}" matches
DeclPlaces(s) ==
    {i \in 1..Len(s) :
        /\ StartsAt(s, i, BibDecl)
        /\ LET e == i + 18 + DigitRun(s, i + 18)
           IN  e <= Len(s) /\ s[e] = "}"}

\* bibmatch.group(0) of the leftmost match
FirstDecl(s) ==
    LET i == Min(DeclPlaces(s))
    IN  SubSeq(s, i, i + 18 + DigitRun(s, i + 18))

Missing == <<"thebibliography is missing.">>

\* if not re.search(...)
BibProblem(s, nb) == ~HasDeclOfWidth(s, DigitWidth(nb))

\* What checkbib prints.
checkbib(s) ==
    LET nb == CountBibitems(s)
    IN  IF nb > 0 /\ BibProblem(s, nb)
        THEN <<Report("checkbib", nb,
                      IF DeclPlaces(s) # {} THEN <<FirstDecl(s)>>
                      ELSE <<Missing>>)>>
        ELSE <<>>

-----------------------------------------------------------------------------
(* checkmultipleacronyms                                                   *)

EndAbstract == EndOf(<<"a", "b", "s", "t", "r", "a", "c", "t">>)

\* [A-Z\d]+ from place i on: the number of characters it takes (greedy)
AlnumRun(s, i) == Run(s, i, Upper \cup Digit)

\* \(([A-Z][A-Z\d]+)(?:\\@)?\) at place i: the place after the match, or 0
AcronymEnd(s, i) ==
    IF /\ i + 1 <= Len(s) /\ s[i] = "(" /\ s[i + 1] \in Upper
       /\ AlnumRun(s, i + 2) >= 1
    THEN LET e == i + 2 + AlnumRun(s, i + 2)
             f == IF StartsAt(s, e, <<BS, "@">>) THEN e + 2 ELSE e
         IN  IF f <= Len(s) /\ s[f] = ")" THEN f + 1 ELSE 0
    ELSE 0

\* re.findall(r"\(([A-Z][A-Z\d]+)(?:\\@)?\)",sec): the first groups
RECURSIVE FindAcronyms(_, _)
FindAcronyms(s, i) ==
    LET P == {p \in i..Len(s) : AcronymEnd(s, p) > 0}
    IN  IF P = {} THEN <<>>
        ELSE LET p == Min(P)
             IN  <<SubSeq(s, p + 1, p + 1 + AlnumRun(s, p + 2))>>
                 \o FindAcronyms(s, AcronymEnd(s, p))

\* list.count
Count(xs, a) == Cardinality({k \in 1..Len(xs) : xs[k] = a})

\* The acronyms one section adds to "multiple"
MultipleIn(sec) ==
    LET acronyms == FindAcronyms(sec, 1)
    IN  {a \in {acronyms[k] : k \in 1..Len(acronyms)} :
            ~romannumeralre(a) /\ Count(acronyms, a) > 1}

\* for a in set(acronyms): a set is iterated in an order the run does not fix
Orderings(S) ==
    {f \in [1..Cardinality(S) -> S] :
        \A i, j \in 1..Cardinality(S) : f[i] = f[j] => i = j}

\* for sec in fstr.split(r"\end{abstract}"): the lists "multiple" can end as
RECURSIVE MultipleLists(_, _)
MultipleLists(secs, k) ==
    IF k > Len(secs) THEN {<<>>}
    ELSE {p \o rest : p \in Orderings(MultipleIn(secs[k])),
                      rest \in MultipleLists(secs, k + 1)}

Sections(s) == Split(s, EndAbstract)

\* What checkmultipleacronyms prints for the list "multiple".
PrintMultiple(multiple) ==
    IF multiple # <<>> THEN <<Report("checkmultipleacronyms", 0, multiple)>>
    ELSE <<>>

-----------------------------------------------------------------------------
(* Classification of the document.                                         *)

DocumentClass == <<BS, "d", "o", "c", "u", "m", "e", "n", "t", "c", "l", "a",
                   "s", "s">>

Foils == <<"f", "o", "i", "l", "s">>

Nature == <<"n", "a", "t", "u", "r", "e">>

Prb == <<"p", "r", "b">>

Achemso == <<"a", "c", "h", "e", "m", "s", "o">>

\* The places \\documentclass.* can reach: after the marker, on its line
AfterDocumentClass(s) ==
    {j \in 1..(Len(s) + 1) :
        \E i \in 1..Len(s) :
            /\ StartsAt(s, i, DocumentClass)
            /\ j >= i + 14
            /\ \A k \in (i + 14)..(j - 1) : s[k] # NL}

\* foilsre=re.compile(r"\\documentclass.*foils",re.MULTILINE)
foilsre(s) == \E j \in AfterDocumentClass(s) : StartsAt(s, j, Foils)

\* apsre=re.compile(r"\\documentclass.*(?:prb\s*[,\]]|achemso)",re.MULTILINE)
apsre(s) ==
    \E j \in AfterDocumentClass(s) :
        \/ StartsAt(s, j, Achemso)
        \/ /\ StartsAt(s, j, Prb)
           /\ \E m \in (j + 3)..Len(s) :
                  /\ s[m] \in {",", "]"}
                  /\ \A k \in (j + 3)..(m - 1) : s[k] \in WhiteSpace

\* natre=re.compile(r"\\documentclass.*nature",re.MULTILINE)
natre(s) == \E j \in AfterDocumentClass(s) : StartsAt(s, j, Nature)

-----------------------------------------------------------------------------
(* The main program.                                                       *)

HelpShort == <<"-", "h", "e", "l", "p">>

HelpLong == <<"-", "-", "h", "e", "l", "p">>

DotTex == <<".", "t", "e", "x">>

\* open(arg) of a path that cannot be read raises IOError
NoFile == <<"IOError">>

\* if arg=="-help" or arg=="--help"
IsHelp(arg) == arg = HelpShort \/ arg = HelpLong

\* A loop that reads every path, whatever its suffix
HasTexSuffixAlways(arg) == TRUE

\* arg.endswith(".tex")
HasTexSuffix(arg) == EndsWith(arg, DotTex)

\* The checks of lines 365-390 in the order the loop body calls them, each
\* with the view it is given.
ChecksOrder ==
    << <<"checknonascii", "fstr">>,
       <<"checkdoubledots", "fstr">>,
       <<"checkat", "fstr_noeqns">>,
       <<"checkdoublecapitalisation", "fstr_nomath">>,
       <<"checkmissingcapitalisation", "fstr_noeqns">>,
       <<"checkmissingbackslash", "fstr_noeqns">>,
       <<"checkinvcommas", "fstr">>,
       <<"checkanconsonant", "fstr_nomath">>,
       <<"checkavowel", "fstr_nomath">>,
       <<"checkerthat", "fstr_noeqns">>,
       <<"checkspacestop", "fstr_noeqns">>,
       <<"checkstopcolon", "fstr_noeqns">>,
       <<"checklyhyphen", "fstr_noeqns">>,
       <<"checkneedendash", "fstr_noeqns">>,
       <<"checkrep", "fstr_noeqns">>,
       <<"checkeqref", "fstr_noeqns">>,
       <<"checkeqspace", "fstr_noeqns">>,
       <<"checkwrongabbrev", "fstr_noeqns">>,
       <<"checkmissabbrev", "fstr_noeqns">>,
       <<"checkendash", "fstr_nomath">>,
       <<"checkrefcase", "fstr_noeqns">>,
       <<"checkminus", "fstr_nomath">>,
       <<"checkbib", "fstr">>,
       <<"checkacronyms", "fstr_noeqns">>,
       <<"checkmultipleacronyms", "fstr_noeqns">> >>

CheckNames == {ChecksOrder[k][1] : k \in 1..Len(ChecksOrder)}

\* The checks whose printed output the model computes
Detailed == {"checkmissingbackslash", "checkrep", "checkbib",
             "checkmultipleacronyms"}

IndexOf(name) == CHOOSE k \in 1..Len(ChecksOrder) : ChecksOrder[k][1] = name

ViewOf(name) == ChecksOrder[IndexOf(name)][2]

\* The statement after the call of check "name"
AfterCheck(name) ==
    IF IndexOf(name) < Len(ChecksOrder) THEN ChecksOrder[IndexOf(name) + 1][1]
    ELSE "foilsdispatch"

\* if not nat: checkmissabbrev(fstr_noeqns)
RunsMissAbbrev(n) == ~n

\* if foils: checkfoils(fstr) else: checknotfoils(fstr)
FoilsCheck(f) == IF f THEN "checkfoils" ELSE "checknotfoils"

\* "and" written for "or"
CiteCheckBoth(a, n) ==
    IF a /\ n THEN "checkwordcite" ELSE "checksuperscriptcite"

\* if aps or nat: checkwordcite(fstr_noeqns) else: checksuperscriptcite(...)
CiteCheck(a, n) == IF a \/ n THEN "checkwordcite" ELSE "checksuperscriptcite"

Call(name, view) == [arg |-> argi, check |-> name, view |-> view]

\* print("\n"+blue+"TeX Checker") ...
Start ==
    /\ pc = "start"
    /\ stdout' = Append(stdout, Report("TeX Checker", 0, <<>>))
    /\ pc' = "loop"
    /\ UNCHANGED <<argv, files, argi, raw, fstr, fstr_noeqns, fstr_nomath,
                   aps, nat, foils, calls, stderr, status, ret>>

\* for arg in sys.argv[1:]: no argument is left and the script ends
EndOfArgs ==
    /\ pc = "loop"
    /\ argi > Len(argv)
    /\ status' = 0
    /\ pc' = "exit"
    /\ UNCHANGED <<argv, files, argi, raw, fstr, fstr_noeqns, fstr_nomath,
                   aps, nat, foils, calls, stdout, stderr, ret>>

\* if arg=="-help" or arg=="--help": print(tw.fill(usage)); sys.exit(0)
Help ==
    /\ pc = "loop"
    /\ argi <= Len(argv)
    /\ IsHelp(argv[argi])
    /\ stdout' = Append(stdout, Report("usage", 0, <<>>))
    /\ status' = 0
    /\ pc' = "exit"
    /\ UNCHANGED <<argv, files, argi, raw, fstr, fstr_noeqns, fstr_nomath,
                   aps, nat, foils, calls, stderr, ret>>

\* print(tw.fill(blue+"Checking file "+green+arg+default)+".\n")
Announce ==
    /\ pc = "loop"
    /\ argi <= Len(argv)
    /\ ~IsHelp(argv[argi])
    /\ stdout' = Append(stdout, Report("Checking file", 0, <<argv[argi]>>))
    /\ pc' = "checkext"
    /\ UNCHANGED <<argv, files, argi, raw, fstr, fstr_noeqns, fstr_nomath,
                   aps, nat, foils, calls, stderr, status, ret>>

\* errstop(message): sys.exit(tw.fill(red+"Error: "+message+default))
errstop(message) ==
    /\ stderr' = Append(stderr, message)
    /\ status' = 1
    /\ pc' = "exit"

\* if not arg.endswith(".tex"): errstop(...)
CheckExtension ==
    /\ pc = "checkext"
    /\ IF ~HasTexSuffix(argv[argi])
       THEN errstop("Need to supply a TeX file as a command-line argument.")
       ELSE pc' = "read" /\ UNCHANGED <<stderr, status>>
    /\ UNCHANGED <<argv, files, argi, raw, fstr, fstr_noeqns, fstr_nomath,
                   aps, nat, foils, calls, stdout, ret>>

\* try: with open(arg) as f: fstr=f.read()  except IOError: errstop(...)
Read ==
    /\ pc = "read"
    /\ IF files[argv[argi]] = NoFile
       THEN /\ errstop("Cannot read")
            /\ UNCHANGED <<raw, fstr, calls>>
       ELSE /\ fstr' = files[argv[argi]]
            /\ raw' = files[argv[argi]]
            /\ calls' = Append(calls, Call("open", "file"))
            /\ pc' = "stripcomments"
            /\ UNCHANGED <<stderr, status>>
    /\ UNCHANGED <<argv, files, argi, fstr_noeqns, fstr_nomath,
                   aps, nat, foils, stdout, ret>>

\* fstr=stripcomments(fstr)
StripComments ==
    /\ pc = "stripcomments"
    /\ fstr' = stripcomments(fstr)
    /\ pc' = "stripeqns"
    /\ UNCHANGED <<argv, files, argi, raw, fstr_noeqns, fstr_nomath,
                   aps, nat, foils, calls, stdout, stderr, status, ret>>

\* fstr_noeqns=stripeqns(fstr)
StripEqns ==
    /\ pc = "stripeqns"
    /\ fstr_noeqns' = stripeqns(fstr)
    /\ pc' = "stripinline"
    /\ UNCHANGED <<argv, files, argi, raw, fstr, fstr_nomath,
                   aps, nat, foils, calls, stdout, stderr, status, ret>>

\* fstr_nomath=stripinline(fstr_noeqns)
StripInline ==
    /\ pc = "stripinline"
    /\ fstr_nomath' = stripinline(fstr_noeqns)
    /\ pc' = "classify"
    /\ UNCHANGED <<argv, files, argi, raw, fstr, fstr_noeqns,
                   aps, nat, foils, calls, stdout, stderr, status, ret>>

\* aps=bool(apsre.search(fstr)) ; nat=bool(natre.search(fstr))
\* foils=bool(foilsre.search(fstr))
Classify ==
    /\ pc = "classify"
    /\ aps' = apsre(fstr)
    /\ nat' = natre(fstr)
    /\ foils' = foilsre(fstr)
    /\ pc' = ChecksOrder[1][1]
    /\ UNCHANGED <<argv, files, argi, raw, fstr, fstr_noeqns, fstr_nomath,
                   calls, stdout, stderr, status, ret>>

\* A check whose output the model does not compute: the call is recorded.
\* checkmissabbrev is called only when the document is not Nature-style.
RunCheck ==
    /\ pc \in CheckNames \ Detailed
    /\ calls' = IF pc = "checkmissabbrev" /\ ~RunsMissAbbrev(nat) THEN calls
                ELSE Append(calls, Call(pc, ViewOf(pc)))
    /\ pc' = AfterCheck(pc)
    /\ UNCHANGED <<argv, files, argi, raw, fstr, fstr_noeqns, fstr_nomath,
                   aps, nat, foils, stdout, stderr, status, ret>>

\* checkmissingbackslash(fstr_noeqns)
CheckMissingBackslash ==
    /\ pc = "checkmissingbackslash"
    /\ LET x == checkmissingbackslash(fstr_noeqns)
       IN  stdout' = stdout \o reportissues("checkmissingbackslash", x[1])
                            \o reportissues("checkmissingbackslash", x[2])
    /\ calls' = Append(calls, Call(pc, ViewOf(pc)))
    /\ pc' = AfterCheck(pc)
    /\ UNCHANGED <<argv, files, argi, raw, fstr, fstr_noeqns, fstr_nomath,
                   aps, nat, foils, stderr, status, ret>>

\* checkrep(fstr_noeqns)
CheckRep ==
    /\ pc = "checkrep"
    /\ stdout' = stdout \o reportissues("checkrep", checkrep(fstr_noeqns))
    /\ calls' = Append(calls, Call(pc, ViewOf(pc)))
    /\ pc' = AfterCheck(pc)
    /\ UNCHANGED <<argv, files, argi, raw, fstr, fstr_noeqns, fstr_nomath,
                   aps, nat, foils, stderr, status, ret>>

\* checkbib(fstr)
CheckBib ==
    /\ pc = "checkbib"
    /\ stdout' = stdout \o checkbib(fstr)
    /\ calls' = Append(calls, Call(pc, ViewOf(pc)))
    /\ pc' = AfterCheck(pc)
    /\ UNCHANGED <<argv, files, argi, raw, fstr, fstr_noeqns, fstr_nomath,
                   aps, nat, foils, stderr, status, ret>>

\* checkmultipleacronyms(fstr_noeqns)
CheckMultipleAcronyms ==
    /\ pc = "checkmultipleacronyms"
    /\ \E multiple \in MultipleLists(Sections(fstr_noeqns), 1) :
           stdout' = stdout \o PrintMultiple(multiple)
    /\ calls' = Append(calls, Call(pc, ViewOf(pc)))
    /\ pc' = AfterCheck(pc)
    /\ UNCHANGED <<argv, files, argi, raw, fstr, fstr_noeqns, fstr_nomath,
                   aps, nat, foils, stderr, status, ret>>

\* if foils: checkfoils(fstr) else: checknotfoils(fstr)
FoilsDispatch ==
    /\ pc = "foilsdispatch"
    /\ calls' = Append(calls, Call(FoilsCheck(foils), "fstr"))
    /\ pc' = "citedispatch"
    /\ UNCHANGED <<argv, files, argi, raw, fstr, fstr_noeqns, fstr_nomath,
                   aps, nat, foils, stdout, stderr, status, ret>>

\* if aps or nat: checkwordcite(fstr_noeqns) else: checksuperscriptcite(...)
\* and on to the next argument
CiteDispatch ==
    /\ pc = "citedispatch"
    /\ calls' = Append(calls, Call(CiteCheck(aps, nat), "fstr_noeqns"))
    /\ argi' = argi + 1
    /\ pc' = "loop"
    /\ UNCHANGED <<argv, files, raw, fstr, fstr_noeqns, fstr_nomath,
                   aps, nat, foils, stdout, stderr, status, ret>>

\* stripinline applied to its own output
Reapply ==
    /\ pc = "classify"
    /\ ret' = stripinline(fstr_nomath)
    /\ pc' = "reapplied"
    /\ UNCHANGED <<argv, files, argi, raw, fstr, fstr_noeqns, fstr_nomath,
                   aps, nat, foils, calls, stdout, stderr, status>>

-----------------------------------------------------------------------------
(* The runs of the whole program: every list of at most MaxArgs arguments  *)
(* over two help flags and four paths, a.tex holding any of DriverDocs.    *)

MaxArgs == 3

ATex == <<"a">> \o DotTex

BTex == <<"b">> \o DotTex

\* a path that names no file
MTex == <<"m">> \o DotTex

\* a readable file without the suffix
CTxt == <<"c", ".", "t", "x", "t">>

Paths == {ATex, BTex, MTex, CTxt}

ArgSet == {HelpShort, HelpLong} \cup Paths

\* "a a": a line checkrep reports
RepeatedWord == <<"a", " ", "a">>

\* \documentclass lines with every combination of foils, nature and prb],
\* and a document without the declaration
DriverDocs ==
    {DocumentClass \o f \o n \o p \o <<NL>> \o RepeatedWord :
        f \in {<<>>, Foils}, n \in {<<>>, Nature},
        p \in {<<>>, Prb \o <<"]">>}}
    \cup {RepeatedWord}

\* "\documentclassachemso" and an acronym defined twice
BDoc ==
    DocumentClass \o Achemso \o <<NL>>
    \o <<"(", "A", "B", ")", " ", "(", "A", "B", ")">>

CDoc == <<"a", " ", "a">>

\* Nothing has been read, computed or printed; -1: the process has not exited
Fresh ==
    /\ argi = 1
    /\ raw = <<>>
    /\ fstr_nomath = <<>>
    /\ aps = FALSE /\ nat = FALSE /\ foils = FALSE
    /\ calls = <<>>
    /\ stdout = <<>>
    /\ stderr = <<>>
    /\ status = -1
    /\ ret = <<>>

Init ==
    /\ argv \in SeqsUpTo(ArgSet, MaxArgs)
    /\ files \in {[p \in Paths |->
                     IF p = ATex THEN d ELSE IF p = BTex THEN BDoc
                     ELSE IF p = CTxt THEN CDoc ELSE NoFile] :
                  d \in DriverDocs}
    /\ pc = "start"
    /\ fstr = <<>>
    /\ fstr_noeqns = <<>>
    /\ Fresh

Next ==
    \/ Start \/ EndOfArgs \/ Help \/ Announce \/ CheckExtension \/ Read
    \/ StripComments \/ StripEqns \/ StripInline \/ Classify
    \/ RunCheck \/ CheckMissingBackslash \/ CheckRep \/ CheckBib
    \/ CheckMultipleAcronyms \/ FoilsDispatch \/ CiteDispatch

Spec == Init /\ [][Next]_vars

\* One function applied to a text: no arguments, no files.
NoArgs == argv = <<>> /\ files = [p \in Paths |-> NoFile]

-----------------------------------------------------------------------------
(* The normalizer on every text of at most MaxNormPieces pieces.           *)

MaxNormPieces == 4

NormPieces ==
    {<<NL>>, <<"a">>, <<"%">>, <<"$">>, <<BS, "[">>, <<BS, "]">>,
     BeginOf(Verbatim), EndOf(Verbatim)}

InitNorm ==
    /\ NoArgs
    /\ \E ps \in SeqsUpTo(NormPieces, MaxNormPieces) :
           fstr = Flatten(ps) /\ raw = Flatten(ps)
    /\ pc = "stripcomments"
    /\ fstr_noeqns = <<>>
    /\ argi = 1
    /\ fstr_nomath = <<>>
    /\ aps = FALSE /\ nat = FALSE /\ foils = FALSE
    /\ calls = <<>> /\ stdout = <<>> /\ stderr = <<>>
    /\ status = -1 /\ ret = <<>>

NextNorm == StripComments \/ StripEqns \/ StripInline

SpecNorm == InitNorm /\ [][NextNorm]_vars

-----------------------------------------------------------------------------
(* stripcomments on every text of at most MaxCommentLen characters.        *)

MaxCommentLen == 5

CommentChars == {"a", "%", BS, NL, " "}

InitComments ==
    /\ NoArgs
    /\ \E t \in SeqsUpTo(CommentChars, MaxCommentLen) : fstr = t /\ raw = t
    /\ pc = "stripcomments"
    /\ fstr_noeqns = <<>>
    /\ argi = 1
    /\ fstr_nomath = <<>>
    /\ aps = FALSE /\ nat = FALSE /\ foils = FALSE
    /\ calls = <<>> /\ stdout = <<>> /\ stderr = <<>>
    /\ status = -1 /\ ret = <<>>

NextComments == StripComments

SpecComments == InitComments /\ [][NextComments]_vars

-----------------------------------------------------------------------------
(* stripinline, applied twice, on every text of at most MaxInlineLen       *)
(* characters.                                                             *)

MaxInlineLen == 10

InlineChars == {"a", "$", BS}

InitInline ==
    /\ NoArgs
    /\ fstr_noeqns \in SeqsUpTo(InlineChars, MaxInlineLen)
    /\ pc = "stripinline"
    /\ fstr = <<>>
    /\ Fresh

NextInline == StripInline \/ Reapply

SpecInline == InitInline /\ [][NextInline]_vars

-----------------------------------------------------------------------------
(* checkmissingbackslash on every text of at most MaxAbbrevPieces pieces.  *)

MaxAbbrevPieces == 4

AbbrevPieces ==
    {<<"i", ".", "e", ".">>, <<"e", ".", "g", ".">>, <<"N", ".", "B", ".">>,
     <<"|", "n", ".", "b", ".">>, <<"a", ".", "u", ".">>,
     <<" ">>, <<"x">>, <<NL>>}

InitAbbrev ==
    /\ NoArgs
    /\ \E ps \in SeqsUpTo(AbbrevPieces, MaxAbbrevPieces) :
           fstr_noeqns = Flatten(ps)
    /\ pc = "checkmissingbackslash"
    /\ fstr = <<>>
    /\ Fresh

NextAbbrev == CheckMissingBackslash

SpecAbbrev == InitAbbrev /\ [][NextAbbrev]_vars

-----------------------------------------------------------------------------
(* checkrep on every text of at most MaxRepWords pieces (a word, two words *)
(* or nothing), each followed by a blank or a newline; the empty piece     *)
(* gives double blanks and blank lines.                                    *)

MaxRepWords == 2

RepWordSet ==
    {<<>>, <<"t", "h", "e">>, <<"t", "h", "e", " ", "t", "h", "e">>,
     <<"c", "a", "t", " ", "s", "a", "t">>, Hline,
     <<"&">>, <<BS, BS>>, EndOf(Itemize), EndOf(Enumerate),
     EndOf(Description), <<"1", "2">>, <<"7", ",">>, <<"A", ".">>, <<"B">>}

RepPieces == {w \o <<sep>> : w \in RepWordSet, sep \in {" ", NL}}

InitRep ==
    /\ NoArgs
    /\ \E ps \in SeqsUpTo(RepPieces, MaxRepWords) : fstr_noeqns = Flatten(ps)
    /\ pc = "checkrep"
    /\ fstr = <<>>
    /\ Fresh

NextRep == CheckRep

SpecRep == InitRep /\ [][NextRep]_vars

-----------------------------------------------------------------------------
(* checkbib on every text of at most MaxBibPieces pieces of a declaration  *)
(* followed by at most MaxBib \bibitem markers.                            *)

MaxBibPieces == 3

MaxBib == 10

BibPieces == {BibDecl, <<"5">>, <<"}">>, <<"4", "2", "}">>, <<"x">>}

RECURSIVE Bibitems(_)
Bibitems(n) == IF n = 0 THEN <<>> ELSE Bibitem \o Bibitems(n - 1)

InitBib ==
    /\ NoArgs
    /\ \E ps \in SeqsUpTo(BibPieces, MaxBibPieces), n \in 0..MaxBib :
           fstr = Flatten(ps) \o Bibitems(n)
    /\ pc = "checkbib"
    /\ fstr_noeqns = <<>>
    /\ Fresh

NextBib == CheckBib

SpecBib == InitBib /\ [][NextBib]_vars

-----------------------------------------------------------------------------
(* checkmultipleacronyms on every text of at most MaxAcroPieces pieces.    *)

MaxAcroPieces == 5

AcroPieces ==
    {<<"(", "A", "B", ")">>, <<"(", "A", "B", BS, "@", ")">>,
     <<"(", "M", "C", ")">>, <<"(", "A", "1", ")">>, <<"A", "B", " ">>,
     EndAbstract}

InitAcro ==
    /\ NoArgs
    /\ \E ps \in SeqsUpTo(AcroPieces, MaxAcroPieces) :
           fstr_noeqns = Flatten(ps)
    /\ pc = "checkmultipleacronyms"
    /\ fstr = <<>>
    /\ Fresh

NextAcro == CheckMultipleAcronyms

SpecAcro == InitAcro /\ [][NextAcro]_vars

-----------------------------------------------------------------------------
(* Properties of the main loop (Spec).                                     *)

HelpFlags == {HelpShort, HelpLong}

\* The paths of ArgSet that lack the suffix or cannot be opened
OffendingPaths == {CTxt, MTex}

\* The reports printed so far by checks, the banners and the usage text aside
CheckReports == {k \in 1..Len(stdout) : stdout[k].who \in CheckNames}

UsagePrinted == \E k \in 1..Len(stdout) : stdout[k].who = "usage"

\* C1: when the argument list holds --help or -help at any position, the
\* run prints the usage text, exits with status 0, opens no document and
\* runs no check for any path of the list.
C1_HelpAnywhere ==
    (\E i \in 1..Len(argv) : argv[i] \in HelpFlags) =>
        /\ calls = <<>>
        /\ pc = "exit" => status = 0 /\ UsagePrinted

\* C2, as claimed: when some path of the argument list lacks the .tex suffix
\* or cannot be opened, the run ends with an error and a non-zero status,
\* no check has printed anything, and no later path is touched, wherever the
\* offending path stands.
C2_HaltsWhateverPosition ==
    \A i \in 1..Len(argv) :
        argv[i] \in OffendingPaths =>
            /\ CheckReports = {}
            /\ \A k \in 1..Len(calls) : calls[k].arg <= i
            /\ pc = "exit" => status > 0 /\ stderr # <<>>

\* The place of the first argument that ends the run: a help flag or an
\* offending path (0 when there is none)
FirstStop ==
    LET S == {i \in 1..Len(argv) : argv[i] \in HelpFlags \cup OffendingPaths}
    IN  IF S = {} THEN 0 ELSE Min(S)

\* The last check of a document's turn
LastChecks == {"checkwordcite", "checksuperscriptcite"}

\* C2, amended: when the first argument that ends the run is an offending
\* path, the run halts there with one error message and status 1, runs no
\* check for that path or a later one and prints nothing after announcing
\* it; the paths before it have been checked in full.
C2_HaltsAtFirstOffender ==
    (FirstStop > 0 /\ argv[FirstStop] \in OffendingPaths) =>
        /\ \A k \in 1..Len(calls) : calls[k].arg < FirstStop
        /\ pc = "exit" =>
               /\ status = 1
               /\ Len(stderr) = 1
               /\ stdout[Len(stdout)]
                      = Report("Checking file", 0, <<argv[FirstStop]>>)
               /\ \A q \in 1..(FirstStop - 1) :
                      \E k \in 1..Len(calls) :
                          calls[k].arg = q /\ calls[k].check \in LastChecks

\* C2 witness: the run has halted at an offending path that came after a
\* document whose checks printed a report.
C2_Witness ==
    /\ pc = "exit"
    /\ FirstStop > 1
    /\ argv[FirstStop] \in OffendingPaths
    /\ status = 1
    /\ CheckReports # {}

\* The calls of the loop body that do not depend on the classification, in
\* the order of the source
FixedCalls ==
    <<"open", "checknonascii", "checkdoubledots", "checkat",
      "checkdoublecapitalisation", "checkmissingcapitalisation",
      "checkmissingbackslash", "checkinvcommas", "checkanconsonant",
      "checkavowel", "checkerthat", "checkspacestop", "checkstopcolon",
      "checklyhyphen", "checkneedendash", "checkrep", "checkeqref",
      "checkeqspace", "checkwrongabbrev", "checkendash", "checkrefcase",
      "checkminus", "checkbib", "checkacronyms", "checkmultipleacronyms">>

FlagDependent ==
    {"checkfoils", "checknotfoils", "checkwordcite", "checksuperscriptcite",
     "checkmissabbrev"}

\* The names of the calls made for argument q, in order
CallsFor(q) ==
    LET Mine(c) == c.arg = q
        cs == SelectSeq(calls, Mine)
    IN  [k \in 1..Len(cs) |-> cs[k].check]

Times(names, n) == Cardinality({k \in 1..Len(names) : names[k] = n})

\* C9: when a document has been processed, exactly one of checkfoils and
\* checknotfoils has run (checkfoils iff foils), exactly one of checkwordcite
\* and checksuperscriptcite (checkwordcite iff aps or nat), checkmissabbrev
\* iff not nat, and every other check once, in the same order whatever the
\* flags.
C9_Dispatch ==
    (pc = "loop" /\ argi > 1) =>
        LET names == CallsFor(argi - 1)
            Fixed(n) == n \notin FlagDependent
        IN  /\ Times(names, "checkfoils") = (IF foils THEN 1 ELSE 0)
            /\ Times(names, "checknotfoils") = (IF foils THEN 0 ELSE 1)
            /\ Times(names, "checkwordcite") = (IF aps \/ nat THEN 1 ELSE 0)
            /\ Times(names, "checksuperscriptcite")
                   = (IF aps \/ nat THEN 0 ELSE 1)
            /\ Times(names, "checkmissabbrev") = (IF nat THEN 0 ELSE 1)
            /\ SelectSeq(names, Fixed) = FixedCalls

\* C9 witness: a document classified as APS-style only has been processed.
C9_Witness ==
    /\ pc = "loop" /\ argi > 1
    /\ aps /\ ~nat /\ ~foils
    /\ Times(CallsFor(argi - 1), "checkwordcite") = 1

-----------------------------------------------------------------------------
(* Properties of the normalizer (SpecNorm, SpecComments, SpecInline).      *)

Newlines(t) == Cardinality({i \in 1..Len(t) : t[i] = NL})

\* A \begin{env} with an \end{env} somewhere after it
HasBlock(t, env) ==
    LET b == BeginOf(env)
        e == EndOf(env)
        I == {i \in 1..Len(t) : StartsAt(t, i, b)}
        J == {j \in 1..Len(t) : StartsAt(t, j, e)}
    IN  \E i \in I : \E j \in J : j >= i + Len(b)

NoVerbatimBlock(t) == ~HasBlock(t, Verbatim) /\ ~HasBlock(t, Lstlisting)

\* A dollar sign or an opener of a display equation
HasMath(t) ==
    \/ \E i \in 1..Len(t) : t[i] = "$"
    \/ \E i \in 1..Len(t) : \E o \in EqnOpens : StartsAt(t, i, o)

Unescaped(l) == {i \in 1..Len(l) : l[i] = "%" /\ (i = 1 \/ l[i - 1] # BS)}

\* The first character of the line that is no blank or tab is a %
CommentLine(l) ==
    \E i \in 1..Len(l) :
        l[i] = "%" /\ \A k \in 1..(i - 1) : l[k] \in {" ", "\t"}

\* C10: stripcomments cuts every line that holds an unescaped comment marker
\* at the first such marker (a full-line comment becomes the empty line), so
\* that no line of its output holds a % after a character other than a
\* backslash.
C10_CutAtFirstMarker ==
    pc = "stripeqns" =>
        LET in == Lines(raw)
            out == Lines(fstr)
        IN  /\ Len(out) = Len(in)
            /\ \A k \in 1..Len(in) :
                   Unescaped(in[k]) # {} =>
                       /\ out[k] = IF CommentLine(in[k]) THEN <<>>
                                   ELSE SubSeq(in[k], 1,
                                               Min(Unescaped(in[k])) - 1)
                       /\ \A i \in 2..Len(out[k]) :
                              out[k][i] = "%" => out[k][i - 1] = BS

\* C8: stripinline applied to its own output changes nothing.
C8_Idempotent == pc = "reapplied" => ret = fstr_nomath

-----------------------------------------------------------------------------
(* Properties of the checks (SpecAbbrev, SpecRep, SpecBib, SpecAcro).      *)

\* What a check handed to reportissues: the body of its k-th report
Reported(who) ==
    LET R == SelectSeq(stdout, LAMBDA r : r.who = who)
    IN  IF R = <<>> THEN <<>> ELSE R[1].body

\* One of "i.e.", "e.g." and "n.b.", in any letter case, at place j of the
\* line, with a blank, tab or tie and more text after it
AbbreviationAt(l, j) ==
    /\ j + 5 <= Len(l)
    /\ <<ToLower(l[j]), l[j + 1], ToLower(l[j + 2]), l[j + 3]>>
           \in {<<"i", ".", "e", ".">>, <<"e", ".", "g", ".">>,
                <<"n", ".", "b", ".">>}
    /\ l[j + 4] \in {" ", "\t", "~"}

\* C7: checkmissingbackslash reports every line in which "i.e.", "e.g." or
\* "n.b." (in any letter case) is followed by a blank, tab or tie and more
\* text.
C7_EachAbbreviation ==
    calls # <<>> =>
        \A k \in 1..Len(Lines(fstr_noeqns)) :
            LET l == Lines(fstr_noeqns)[k]
            IN  (\E j \in 1..Len(l) : AbbreviationAt(l, j)) =>
                    \E r \in 1..Len(stdout) :
                        /\ stdout[r].who = "checkmissingbackslash"
                        /\ \E m \in 1..Len(stdout[r].body) :
                               stdout[r].body[m] = l

\* The tokens of a text: <<i, j>> when the characters i..j hold no white
\* space and have white space or an end of the text on either side
Tokens(t) ==
    LET I == {i \in 1..Len(t) :
                 t[i] \notin WhiteSpace /\ (i = 1 \/ t[i - 1] \in WhiteSpace)}
        J == {j \in 1..Len(t) :
                 t[j] \notin WhiteSpace
                 /\ (j = Len(t) \/ t[j + 1] \in WhiteSpace)}
    IN  {<<i, Min({j \in J : j >= i})>> : i \in I}

TokenText(t, ij) == SubSeq(t, ij[1], ij[2])

\* The place where the line of place i starts
LineStart(t, i) == Max({b \in 1..i : b = 1 \/ t[b - 1] = NL})

\* The line a place of the text is on
LineAround(t, i) == SubSeq(t, LineStart(t, i), LineEnd(t, i) - 1)

\* The markup tokens and the bare numbers and single capital letters that
\* may be repeated
MayRepeat ==
    {Hline, <<"&">>, <<BS, BS>>, EndOf(Itemize), EndOf(Enumerate),
     EndOf(Description), <<"1", "2">>, <<"7", ",">>, <<"A", ".">>, <<"B">>}

\* The tokens that equal the token before them and are not exempt
Repetitions(t) ==
    {ij \in Tokens(t) :
        /\ TokenText(t, ij) \notin MayRepeat
        /\ \E pq \in Tokens(t) :
               /\ pq[2] < ij[1]
               /\ \A k \in (pq[2] + 1)..(ij[1] - 1) : t[k] \in WhiteSpace
               /\ TokenText(t, pq) = TokenText(t, ij)}

\* What checkrep reports for a repetition: the line, after "... token" when
\* the token is the first of its line
EntryFor(t, ij) ==
    IF \A k \in LineStart(t, ij[1])..(ij[1] - 1) : t[k] \in WhiteSpace
    THEN Dots \o TokenText(t, ij) \o <<NL>> \o LineAround(t, ij[1])
    ELSE LineAround(t, ij[1])

TheTheCatSat ==
    <<"t", "h", "e", " ", "t", "h", "e", " ", "c", "a", "t", " ", "s", "a",
      "t">>

DeclaredWidths(t) ==
    LET I == {i \in 1..Len(t) : StartsAt(t, i, BibDecl)}
    IN  {n \in 0..Len(t) :
            \E i \in I :
                /\ i + Len(BibDecl) + n <= Len(t)
                /\ \A k \in 0..(n - 1) : t[i + Len(BibDecl) + k] \in Digit
                /\ t[i + Len(BibDecl) + n] = "}"}

\* The \bibitem markers of the text
Markers(t) == {i \in 1..Len(t) : StartsAt(t, i, Bibitem)}

DeclFive == BibDecl \o <<"5", "}">>

Definitions(t, a) ==
    {i \in 1..Len(t) :
        \/ StartsAt(t, i, <<"(">> \o a \o <<")">>)
        \/ StartsAt(t, i, <<"(">> \o a \o <<BS, "@", ")">>)}

\* No \end{abstract} lies between the places i < j
SameSection(t, i, j) == \A b \in i..j : ~StartsAt(t, b, EndAbstract)

\* C5: an acronym that is no Roman numeral and is defined twice or more in
\* one section is listed exactly once by checkmultipleacronyms, whatever
\* the other sections hold.
C5_ListedOnce ==
    calls # <<>> =>
        \A a \in {<<"A", "B">>, <<"A", "1">>} :
            (\E i, j \in Definitions(fstr_noeqns, a) :
                 i < j /\ SameSection(fstr_noeqns, i, j))
                => Times(Reported("checkmultipleacronyms"), a) = 1

=============================================================================
